---------------------------- MODULE Spec2Model ----------------------------
(*************************************************************************)
(* A model of datadog_checks.checks.base.AgentCheck (Python 2).          *)
(*                                                                       *)
(* Strings are sequences of one-character tokens.  Each token stands for *)
(* one class of characters the regular expressions of the source tell    *)
(* apart:                                                                *)
(*   "a", "b"  lowercase ASCII letters        "B"  an uppercase letter   *)
(*   "1"       a digit                        "_"  "."  themselves       *)
(*   "-"       a character of [,+*-/()[]{}\s] (line 205)                 *)
(*   "!"       ASCII punctuation outside that set ('!', ':', '@')        *)
(*   "U+00E1"  a non-ASCII code point whose NFKD form starts with an     *)
(*             ASCII letter (a-acute = "a" + U+0301), in a unicode       *)
(*   "U+20AC"  a non-ASCII code point with no ASCII part, in a unicode   *)
(*   "0xE1"    a non-ASCII byte, in a str                                *)
(*************************************************************************)
EXTENDS Integers, Sequences, FiniteSets, TLC

\* Longest metric name and longest prefix drawn as inputs of normalize.
MaxLen == 3
MaxPrefixLen == 1
\* Longest tag list passed to a submission, and the number of warning() calls.
MaxTags == 2
MaxWarnings == 2

Ascii == {"a", "B", "1", "_", ".", "-", "!"}
UnicodeChars == Ascii \cup {"U+00E1", "U+20AC"}
StrChars == Ascii \cup {"0xE1"}
PrefixChars == {"a", "B", "_"}

Lowercase == {"a", "b"}
Uppercase == {"B"}
Digits == {"1"}
Letters == Lowercase \cup Uppercase

RECURSIVE SeqsUpTo(_, _)
SeqsUpTo(S, n) ==
    IF n = 0 THEN {<< >>}
    ELSE LET shorter == SeqsUpTo(S, n - 1)
         IN  shorter \cup {Append(s, c) : s \in shorter, c \in S}

RECURSIVE Concat(_)
Concat(ss) == IF ss = << >> THEN << >> ELSE Head(ss) \o Concat(Tail(ss))

Drop(s, n) == SubSeq(s, n + 1, Len(s))

\* Python's None, and a present optional value.
None == [isNone |-> TRUE]
Some(v) == [isNone |-> FALSE, val |-> v]

(*************************************************************************)
(* normalize and convert_to_underscore_separated                         *)
(*************************************************************************)

\* unicodedata.normalize('NFKD', c).encode('ascii', 'ignore') of one code point
NFKD_ascii(c) ==
    CASE c = "U+00E1" -> <<"a">>
      [] c = "U+20AC" -> << >>
      [] OTHER -> <<c>>

\* str.lower() of one character
lower(c) == IF c = "B" THEN "b" ELSE c

\* The character class of line 205: [,\+\*\-/()\[\]{}\s]
NAME_REPLACED == {"-"}

\* Faulty variant: line 205 left out, the characters of the class stay.
sub_replaced_chars_skipped(s) == s

\* re.sub(r"[,\+\*\-/()\[\]{}\s]", "_", s)
sub_replaced_chars(s) ==
    [i \in 1..Len(s) |-> IF s[i] \in NAME_REPLACED THEN "_" ELSE s[i]]

\* Faulty variant: line 207 left out, runs of underscores stay.
sub_multiple_underscores_skipped(s) == s

\* re.sub(r"__+", "_", s)
RECURSIVE sub_multiple_underscores(_)
sub_multiple_underscores(s) ==
    IF s = << >> THEN << >>
    ELSE IF Len(s) >= 2 /\ s[1] = "_" /\ s[2] = "_"
         THEN sub_multiple_underscores(Tail(s))
         ELSE <<s[1]>> \o sub_multiple_underscores(Tail(s))

\* re.sub(r"^_", "", s)
sub_leading_underscore(s) ==
    IF s # << >> /\ s[1] = "_" THEN Tail(s) ELSE s

\* Faulty variant: line 210 left out, a trailing underscore stays.
sub_trailing_underscore_kept(s) == s

\* re.sub(r"_$", "", s)
sub_trailing_underscore(s) ==
    IF s # << >> /\ s[Len(s)] = "_" THEN SubSeq(s, 1, Len(s) - 1) ELSE s

\* re.sub(r"\._", ".", s)
RECURSIVE sub_dot_underscore(_)
sub_dot_underscore(s) ==
    IF s = << >> THEN << >>
    ELSE IF Len(s) >= 2 /\ s[1] = "." /\ s[2] = "_"
         THEN <<".">> \o sub_dot_underscore(Drop(s, 2))
         ELSE <<s[1]>> \o sub_dot_underscore(Tail(s))

\* re.sub(r"_\.", ".", s)
RECURSIVE sub_underscore_dot(_)
sub_underscore_dot(s) ==
    IF s = << >> THEN << >>
    ELSE IF Len(s) >= 2 /\ s[1] = "_" /\ s[2] = "."
         THEN <<".">> \o sub_underscore_dot(Drop(s, 2))
         ELSE <<s[1]>> \o sub_underscore_dot(Tail(s))

\* Length of the longest prefix of s whose characters are all in S.
RECURSIVE RunLen(_, _)
RunLen(s, S) ==
    IF s # << >> /\ s[1] \in S THEN 1 + RunLen(Tail(s), S) ELSE 0

\* Length of the longest prefix of s none of whose characters is in S.
RECURSIVE RunLenNot(_, _)
RunLenNot(s, S) ==
    IF s # << >> /\ s[1] \notin S THEN 1 + RunLenNot(Tail(s), S) ELSE 0

\* FIRST_CAP_RE = '(.)([A-Z][a-z]+)', substituted by r'\1_\2'
RECURSIVE FIRST_CAP_RE_sub(_)
FIRST_CAP_RE_sub(s) ==
    IF s = << >> THEN << >>
    ELSE IF Len(s) >= 3 /\ s[2] \in Uppercase /\ s[3] \in Lowercase
         THEN LET n == 2 + RunLen(Drop(s, 2), Lowercase)
              IN  <<s[1], "_">> \o SubSeq(s, 2, n) \o FIRST_CAP_RE_sub(Drop(s, n))
         ELSE <<s[1]>> \o FIRST_CAP_RE_sub(Tail(s))

\* ALL_CAP_RE = '([a-z0-9])([A-Z])', substituted by r'\1_\2'
RECURSIVE ALL_CAP_RE_sub(_)
ALL_CAP_RE_sub(s) ==
    IF s = << >> THEN << >>
    ELSE IF Len(s) >= 2 /\ s[1] \in Lowercase \cup Digits /\ s[2] \in Uppercase
         THEN <<s[1], "_", s[2]>> \o ALL_CAP_RE_sub(Drop(s, 2))
         ELSE <<s[1]>> \o ALL_CAP_RE_sub(Tail(s))

\* The class [a-zA-Z0-9_.] that METRIC_REPLACEMENT negates
METRIC_ALLOWED == Letters \cup Digits \cup {"_", "."}

\* The first alternative of METRIC_REPLACEMENT, ([^a-zA-Z0-9_.]+), the only
\* one that can match after the start of the string.
RECURSIVE METRIC_REPLACEMENT_rest(_)
METRIC_REPLACEMENT_rest(s) ==
    IF s = << >> THEN << >>
    ELSE IF s[1] \notin METRIC_ALLOWED
         THEN LET n == RunLenNot(s, METRIC_ALLOWED)
              IN  <<"_">> \o METRIC_REPLACEMENT_rest(Drop(s, n))
         ELSE <<s[1]>> \o METRIC_REPLACEMENT_rest(Tail(s))

\* METRIC_REPLACEMENT = r'([^a-zA-Z0-9_.]+)|(^[^a-zA-Z]+)', substituted by '_'
METRIC_REPLACEMENT_sub(s) ==
    IF s = << >> THEN << >>
    ELSE IF s[1] \notin METRIC_ALLOWED
         THEN METRIC_REPLACEMENT_rest(s)
         ELSE IF s[1] \notin Letters
              THEN LET n == RunLenNot(s, Letters)
                   IN  <<"_">> \o METRIC_REPLACEMENT_rest(Drop(s, n))
              ELSE METRIC_REPLACEMENT_rest(s)

\* DOT_UNDERSCORE_CLEANUP = r'_*\._*', substituted by '.'
RECURSIVE DOT_UNDERSCORE_CLEANUP_sub(_)
DOT_UNDERSCORE_CLEANUP_sub(s) ==
    IF s = << >> THEN << >>
    ELSE LET k == RunLen(s, {"_"})
         IN  IF k < Len(s) /\ s[k + 1] = "."
             THEN LET m == RunLen(Drop(s, k + 1), {"_"})
                  IN  <<".">> \o DOT_UNDERSCORE_CLEANUP_sub(Drop(s, k + 1 + m))
             ELSE <<s[1]>> \o DOT_UNDERSCORE_CLEANUP_sub(Tail(s))

\* str.strip('_')
strip_underscores(s) ==
    LET lead == RunLen(s, {"_"})
        t == Drop(s, lead)
        keep == CHOOSE n \in 0..Len(t) :
                    /\ n = 0 \/ t[n] # "_"
                    /\ \A i \in (n + 1)..Len(t) : t[i] = "_"
    IN  SubSeq(t, 1, keep)

convert_to_underscore_separated(name) ==
    LET first == FIRST_CAP_RE_sub(name)
        allc == ALL_CAP_RE_sub(first)
        lowered == [i \in 1..Len(allc) |-> lower(allc[i])]
        replaced == METRIC_REPLACEMENT_sub(lowered)
    IN  strip_underscores(DOT_UNDERSCORE_CLEANUP_sub(replaced))

\* Lines 195-198: a unicode is NFKD-decomposed and encoded to ASCII.
ascii_fold(metric) ==
    IF metric.isUnicode
    THEN Concat([i \in 1..Len(metric.chars) |-> NFKD_ascii(metric.chars[i])])
    ELSE metric.chars

\* Faulty variant: the two strips (lines 209-210) run before the collapse (line 207).
name_cleanup_strip_first(name) ==
    sub_underscore_dot(sub_dot_underscore(sub_multiple_underscores(
        sub_trailing_underscore(sub_leading_underscore(name)))))

\* Lines 206-213: the cleanup applied to the name in both branches.
name_cleanup(name) ==
    sub_underscore_dot(sub_dot_underscore(sub_trailing_underscore(
        sub_leading_underscore(sub_multiple_underscores(name)))))

\* The name part of normalize's result (lines 195-213).
normalized_name(metric, fixCase) ==
    LET metric_name == ascii_fold(metric)
    IN  name_cleanup(IF fixCase THEN convert_to_underscore_separated(metric_name)
                     ELSE sub_replaced_chars(metric_name))

\* The prefix part of normalize's result (lines 202-203, 215-216).
normalized_prefix(pfx, fixCase) ==
    IF fixCase THEN convert_to_underscore_separated(pfx) ELSE pfx

normalize(metric, pfx, fixCase) ==
    IF pfx.isNone THEN normalized_name(metric, fixCase)
    ELSE normalized_prefix(pfx.val, fixCase) \o <<".">> \o normalized_name(metric, fixCase)

(*************************************************************************)
(* The AgentCheck instance.  During one call `self` is the record        *)
(*   deprecations  the flag of each entry of self._deprecations          *)
(*   notices       how often each deprecation notice went to self.log    *)
(*   warnings      self.warnings                                         *)
(*   log           what the call in progress sent to self.log.warning    *)
(*   submitted     what the call in progress sent to the aggregator      *)
(* Every operator below takes `self` and yields the `self` it leaves.    *)
(*************************************************************************)

DEPRECATION_KEYS == {"increment", "device_name", "in_developer_mode"}

\* self._deprecations[key][1]
DeprecationNotice(key) ==
    CASE key = "increment" ->
           "DEPRECATION NOTICE: AgentCheck.increment/AgentCheck.decrement are deprecated"
      [] key = "device_name" -> "DEPRECATION NOTICE: device_name is deprecated"
      [] key = "in_developer_mode" -> "DEPRECATION NOTICE: in_developer_mode is deprecated"

\* A text value: a str, or a unicode that encodes to UTF-8 (ok) or raises
\* UnicodeError when encoded; an object whose str() works (ok) or raises.
Str(text) == [type |-> "str", text |-> text, ok |-> TRUE]
Unicode(text, ok) == [type |-> "unicode", text |-> text, ok |-> ok]
Object(text, ok) == [type |-> "object", text |-> text, ok |-> ok]

\* isinstance(v, basestring)
is_basestring(v) == v.type \in {"str", "unicode"}

\* Python truth value of an optional list, and of an optional string
truthy_list(opt) == ~opt.isNone /\ opt.val # << >>
truthy_str(opt) == ~opt.isNone /\ opt.val # ""

\* utils.common.ensure_bytes: a unicode is encoded to UTF-8, a str is returned as is
ensure_bytes(v) == IF v.type = "unicode" THEN Str(v.text) ELSE v

\* str(v) of a value whose conversion succeeds
str(v) == Str(v.text)

\* Faulty variant: line 147 left out, the flag is never set.
_log_deprecation_flag_unset(self, deprecation_key) ==
    IF ~self.deprecations[deprecation_key]
    THEN [self EXCEPT !.log = Append(@, DeprecationNotice(deprecation_key)),
                      !.notices[deprecation_key] = @ + 1]
    ELSE self

_log_deprecation(self, deprecation_key) ==
    IF ~self.deprecations[deprecation_key]
    THEN [self EXCEPT !.log = Append(@, DeprecationNotice(deprecation_key)),
                      !.notices[deprecation_key] = @ + 1,
                      !.deprecations[deprecation_key] = TRUE]
    ELSE self

\* Faulty variant: the two `continue` (lines 266, 272) left out, a tag that fails
\* is appended as it came.
normalize_one_tag_keeps_failed(acc, tag) ==
    IF ~is_basestring(tag)
    THEN IF tag.ok
         THEN [acc EXCEPT !.ret = Append(@, str(tag))]
         ELSE [acc EXCEPT !.ret = Append(@, tag), !.self.log =
                   Append(@, "Error converting tag to string, ignoring tag")]
    ELSE IF tag.ok
         THEN [acc EXCEPT !.ret = Append(@, ensure_bytes(tag))]
         ELSE [acc EXCEPT !.ret = Append(@, tag), !.self.log =
                   Append(@, "Error encoding unicode tag to utf-8 encoded string, ignoring tag")]

\* One turn of the loop of _normalize_tags_type (lines 260-273); acc holds
\* self and the normalized_tags built so far.
normalize_one_tag(acc, tag) ==
    IF ~is_basestring(tag)
    THEN IF tag.ok
         THEN [acc EXCEPT !.ret = Append(@, str(tag))]
         ELSE [acc EXCEPT !.self.log =
                   Append(@, "Error converting tag to string, ignoring tag")]
    ELSE IF tag.ok
         THEN [acc EXCEPT !.ret = Append(@, ensure_bytes(tag))]
         ELSE [acc EXCEPT !.self.log =
                   Append(@, "Error encoding unicode tag to utf-8 encoded string, ignoring tag")]

RECURSIVE normalize_tags_loop(_, _)
normalize_tags_loop(acc, tags) ==
    IF tags = << >> THEN acc
    ELSE normalize_tags_loop(normalize_one_tag(acc, Head(tags)), Tail(tags))

\* Yields [self, ret]: the instance and the new list.
_normalize_tags_type(self, tags) ==
    IF tags.isNone THEN [self |-> self, ret |-> << >>]
    ELSE normalize_tags_loop([self |-> self, ret |-> << >>], tags.val)

_normalize_tags(self, tags, device_name) ==
    LET normalized_tags == IF tags.isNone THEN << >> ELSE tags.val
    IN  IF truthy_str(device_name)
        THEN _normalize_tags_type(_log_deprecation(self, "device_name"),
                 Some(Append(normalized_tags, Str("device:" \o device_name.val))))
        ELSE _normalize_tags_type(self, Some(normalized_tags))

\* Faulty variant: the test of line 104 left out, None is submitted as 0.
_submit_metric_none_as_zero(self, mtype, name, value, tags, hostname, device_name) ==
    LET r == _normalize_tags(self, tags, device_name)
    IN  [r.self EXCEPT !.submitted = Append(@,
            [fn |-> "submit_metric", check_id |-> None, mtype |-> mtype,
             name |-> name, value |-> IF value.isNone THEN 0 ELSE value.val,
             tags |-> r.ret,
             hostname |-> IF hostname.isNone THEN "" ELSE hostname.val])]

_submit_metric(self, mtype, name, value, tags, hostname, device_name) ==
    IF value.isNone THEN self
    ELSE LET r == _normalize_tags(self, tags, device_name)
         IN  [r.self EXCEPT !.submitted = Append(@,
                 [fn |-> "submit_metric", check_id |-> None, mtype |-> mtype,
                  name |-> name, value |-> value.val, tags |-> r.ret,
                  hostname |-> IF hostname.isNone THEN "" ELSE hostname.val])]

gauge(self, name, value, tags, hostname, device_name) ==
    _submit_metric(self, "GAUGE", name, value, tags, hostname, device_name)

count(self, name, value, tags, hostname, device_name) ==
    _submit_metric(self, "COUNT", name, value, tags, hostname, device_name)

monotonic_count(self, name, value, tags, hostname, device_name) ==
    _submit_metric(self, "MONOTONIC_COUNT", name, value, tags, hostname, device_name)

rate(self, name, value, tags, hostname, device_name) ==
    _submit_metric(self, "RATE", name, value, tags, hostname, device_name)

histogram(self, name, value, tags, hostname, device_name) ==
    _submit_metric(self, "HISTOGRAM", name, value, tags, hostname, device_name)

historate(self, name, value, tags, hostname, device_name) ==
    _submit_metric(self, "HISTORATE", name, value, tags, hostname, device_name)

increment(self, name, value, tags, hostname, device_name) ==
    _submit_metric(_log_deprecation(self, "increment"),
                   "COUNTER", name, value, tags, hostname, device_name)

decrement(self, name, value, tags, hostname, device_name) ==
    _submit_metric(_log_deprecation(self, "increment"),
                   "COUNTER", name, value, tags, hostname, device_name)

METRIC_METHODS == {"gauge", "count", "monotonic_count", "rate", "histogram",
                   "historate", "increment", "decrement"}

\* The call self.<method>(name, value, tags, hostname, device_name)
metric_call(method, self, name, value, tags, hostname, device_name) ==
    CASE method = "gauge" -> gauge(self, name, value, tags, hostname, device_name)
      [] method = "count" -> count(self, name, value, tags, hostname, device_name)
      [] method = "monotonic_count" ->
             monotonic_count(self, name, value, tags, hostname, device_name)
      [] method = "rate" -> rate(self, name, value, tags, hostname, device_name)
      [] method = "histogram" -> histogram(self, name, value, tags, hostname, device_name)
      [] method = "historate" -> historate(self, name, value, tags, hostname, device_name)
      [] method = "increment" -> increment(self, name, value, tags, hostname, device_name)
      [] method = "decrement" -> decrement(self, name, value, tags, hostname, device_name)

in_developer_mode(self) == _log_deprecation(self, "in_developer_mode")

service_check(self, name, status, tags, hostname, message) ==
    LET r == _normalize_tags_type(self, tags)
    IN  [r.self EXCEPT !.submitted = Append(@,
            [fn |-> "submit_service_check", check_id |-> None,
             name |-> ensure_bytes(name), status |-> status, tags |-> r.ret,
             hostname |-> IF hostname.isNone THEN "" ELSE hostname.val,
             message |-> IF message.isNone THEN Str("") ELSE ensure_bytes(message.val)])]

\* The fields of an event that the model carries; None is an absent key.
EVENT_TEXT_FIELDS == {"msg_title", "aggregation_key"}

\* Lines 162-170: some unicode field does not encode.
event_encoding_fails(ev) ==
    \E k \in EVENT_TEXT_FIELDS :
        ~ev[k].isNone /\ ev[k].val.type = "unicode" /\ ~ev[k].val.ok

\* Lines 162-166: every unicode field encoded to UTF-8.
event_encoded(ev) ==
    [k \in DOMAIN ev |->
        IF k \in EVENT_TEXT_FIELDS /\ ~ev[k].isNone
        THEN Some(ensure_bytes(ev[k].val)) ELSE ev[k]]

\* A field that does not encode replaced by an absent key.
event_without_bad_fields(ev) ==
    [k \in DOMAIN ev |->
        IF k \in EVENT_TEXT_FIELDS /\ ~ev[k].isNone /\ ~ev[k].val.ok THEN None ELSE ev[k]]

\* Faulty variant: `continue` for the `return` of line 170, the field that does not
\* encode is dropped and the event is submitted without it.
event_drops_field(self, ev) ==
    LET s0 == IF event_encoding_fails(ev)
              THEN [self EXCEPT !.log = Append(@,
                       "Error encoding unicode field to utf-8 encoded string, cannot submit event")]
              ELSE self
        e1 == event_encoded(event_without_bad_fields(ev))
        r == IF truthy_list(e1.tags) THEN _normalize_tags_type(s0, e1.tags)
             ELSE [self |-> s0, ret |-> << >>]
        e2 == IF truthy_list(e1.tags) THEN [e1 EXCEPT !.tags = Some(r.ret)] ELSE e1
    IN  [r.self EXCEPT !.submitted = Append(@,
            [fn |-> "submit_event", check_id |-> None, event |-> e2])]

event(self, ev) ==
    IF event_encoding_fails(ev)
    THEN [self EXCEPT !.log = Append(@,
             "Error encoding unicode field to utf-8 encoded string, cannot submit event")]
    ELSE LET e1 == event_encoded(ev)
             r == IF truthy_list(e1.tags) THEN _normalize_tags_type(self, e1.tags)
                  ELSE [self |-> self, ret |-> << >>]
             e2 == IF truthy_list(e1.tags) THEN [e1 EXCEPT !.tags = Some(r.ret)] ELSE e1
             e3 == IF ~e2.timestamp.isNone /\ ~(e2.timestamp.val.type = "int" /\ e2.timestamp.val.n = 0)
                   THEN [e2 EXCEPT !.timestamp = Some([type |-> "int", n |-> @.val.n])]
                   ELSE e2
             e4 == IF ~e3.aggregation_key.isNone /\ e3.aggregation_key.val.text # ""
                   THEN [e3 EXCEPT !.aggregation_key = Some(str(@.val))]
                   ELSE e3
         IN  [r.self EXCEPT !.submitted = Append(@,
                 [fn |-> "submit_event", check_id |-> None, event |-> e4])]

\* str(warning_message): a str is itself, an int its decimal digits
str_of_message(m) == IF m.type = "int" THEN (IF m.n = 7 THEN "7" ELSE "0") ELSE m.text

warning(self, warning_message) ==
    LET msg == str_of_message(warning_message)
    IN  [self EXCEPT !.log = Append(@, msg), !.warnings = Append(@, msg)]

\* Faulty variant: line 287 left out, the buffer is returned and kept.
get_warnings_keeps_buffer(self) == [self |-> self, ret |-> self.warnings]

\* Yields [self, ret]: the instance and the list returned.
get_warnings(self) ==
    [self |-> [self EXCEPT !.warnings = << >>], ret |-> self.warnings]

\* What self.check(copy.deepcopy(self.instances[0])) does in run (line 292):
\* "returns", or the exception raised.  An empty instances list raises
\* IndexError before check is called.
IndexError == [isException |-> TRUE, message |-> Str("list index out of range")]

run_try_outcome(insts, check_outcome) ==
    IF insts = << >> THEN Some(IndexError) ELSE check_outcome

\* str(e) and json.dumps of lines 296-301 succeed: the message is ASCII.
\* str() of a unicode message with a non-ASCII character raises
\* UnicodeEncodeError, json.dumps of a str with a non-ASCII byte raises
\* UnicodeDecodeError; either leaves the except clause.
message_serializes(e) == e.message.ok

\* Yields what run() hands to its caller: [raised, val].
run(insts, check_outcome) ==
    LET raised == run_try_outcome(insts, check_outcome)
    IN  IF raised.isNone THEN [raised |-> FALSE, val |-> << >>]
        ELSE IF ~raised.val.isException
             THEN [raised |-> TRUE, val |-> raised.val]
        ELSE IF ~message_serializes(raised.val)
             THEN [raised |-> TRUE,
                   val |-> [isException |-> TRUE,
                            message |-> Str("ascii codec cannot encode or decode")]]
        ELSE [raised |-> FALSE,
              val |-> <<[message |-> raised.val.message.text,
                         traceback |-> "Traceback (most recent call last)"]>>]

(*************************************************************************)
(* State                                                                 *)
(*************************************************************************)

VARIABLES
    deprecations,   \* self._deprecations[key][0]
    notices,        \* times each deprecation notice was logged since __init__
    warnings,       \* self.warnings
    instances,      \* self.instances
    log,            \* what the last call sent to self.log.warning
    submitted,      \* what the last call sent to the aggregator
    last_call,      \* the last call made on the instance, with its arguments
    returned,       \* what the last call returned
    recorded,       \* every message warning() recorded, oldest first
    delivered,      \* every message get_warnings() returned, oldest first
    metric,         \* normalize's arguments ...
    prefix,
    fix_case,
    result,         \* ... its latest result, and the one before
    prev,
    calls           \* number of normalize calls made

check_vars == <<deprecations, notices, warnings, instances, log, submitted,
                last_call, returned, recorded, delivered>>
normalize_vars == <<metric, prefix, fix_case, result, prev, calls>>
vars == <<check_vars, normalize_vars>>

\* The instance as a call finds it.
Self ==
    [deprecations |-> deprecations, notices |-> notices, warnings |-> warnings,
     log |-> << >>, submitted |-> << >>]

\* The instance as a call leaves it.
Leave(self) ==
    /\ deprecations' = self.deprecations
    /\ notices' = self.notices
    /\ warnings' = self.warnings
    /\ log' = self.log
    /\ submitted' = self.submitted

\* AgentCheck.__init__ (lines 37-90)
InitCheck(insts) ==
    /\ deprecations = [k \in DEPRECATION_KEYS |-> FALSE]
    /\ notices = [k \in DEPRECATION_KEYS |-> 0]
    /\ warnings = << >>
    /\ instances = insts
    /\ log = << >>
    /\ submitted = << >>
    /\ last_call = [op |-> "__init__"]
    /\ returned = None
    /\ recorded = << >>
    /\ delivered = << >>

InitNormalize(m, p, fc) ==
    /\ metric = m
    /\ prefix = p
    /\ fix_case = fc
    /\ result = << >>
    /\ prev = << >>
    /\ calls = 0

(*************************************************************************)
(* Inputs                                                                *)
(*************************************************************************)

InstancesArgs == {<< >>, <<"instance">>}

TagValues == {Str("env:a"), Unicode("env:b", TRUE), Unicode("env:c", FALSE),
              Object("1", TRUE), Object("x", FALSE)}
TagLists == SeqsUpTo(TagValues, MaxTags)
TagsArgs == {None} \cup {Some(ts) : ts \in TagLists}

ValueArgs == {None, Some(1)}
\* tags and hostname both left out, or both given
TagsHostnameArgs == {[tags |-> None, hostname |-> None],
                     [tags |-> Some(<<Str("env:a")>>), hostname |-> Some("host")]}
DeviceNameArgs == {None, Some(""), Some("sda")}

\* Events: every tag list under a title that encodes, and every choice of
\* the other keys with a few tag lists.
EventArgs ==
    [msg_title : {Some(Str("title")), Some(Unicode("title", TRUE))},
     tags : TagsArgs,
     timestamp : {Some([type |-> "str", n |-> 5])},
     aggregation_key : {Some(Unicode("key", TRUE))}]
    \cup
    [msg_title : {Some(Str("title")), Some(Unicode("title", FALSE))},
     tags : {None, Some(<< >>), Some(<<Object("x", FALSE), Str("env:a")>>)},
     timestamp : {None, Some([type |-> "int", n |-> 0])},
     aggregation_key : {None, Some(Str("")), Some(Unicode("key", FALSE))}]

WarningArgs == {[type |-> "str", text |-> "w"], [type |-> "int", n |-> 7]}

\* What check() does: returns (None), or raises an Exception with an ASCII
\* message, an Exception with a non-ASCII unicode message, or an exception
\* that does not derive from Exception (SystemExit, KeyboardInterrupt).
CheckOutcomes ==
    {None,
     Some([isException |-> TRUE, message |-> Str("boom")]),
     Some([isException |-> TRUE, message |-> Unicode("U+00E9", FALSE)]),
     Some([isException |-> FALSE, message |-> Str("exit")])}

MetricNames ==
    {[isUnicode |-> TRUE, chars |-> s] : s \in SeqsUpTo(UnicodeChars, MaxLen)}
        \cup {[isUnicode |-> FALSE, chars |-> s] : s \in SeqsUpTo(StrChars, MaxLen)}
PrefixArgs == {None} \cup {Some(p) : p \in SeqsUpTo(PrefixChars, MaxPrefixLen)}

(*************************************************************************)
(* Calls on the instance                                                 *)
(*************************************************************************)

CallMetric(method, name, value, tags, hostname, device_name) ==
    /\ Leave(metric_call(method, Self, name, value, tags, hostname, device_name))
    /\ last_call' = [op |-> method, name |-> name, value |-> value, tags |-> tags,
                     hostname |-> hostname, device_name |-> device_name]
    /\ returned' = None
    /\ UNCHANGED <<instances, recorded, delivered, normalize_vars>>

CallInDeveloperMode ==
    /\ Leave(in_developer_mode(Self))
    /\ last_call' = [op |-> "in_developer_mode"]
    /\ returned' = Some(FALSE)
    /\ UNCHANGED <<instances, recorded, delivered, normalize_vars>>

CallServiceCheck(status, tags, hostname, message) ==
    /\ Leave(service_check(Self, Str("svc"), status, tags, hostname, message))
    /\ last_call' = [op |-> "service_check", status |-> status, tags |-> tags,
                     hostname |-> hostname, message |-> message]
    /\ returned' = None
    /\ UNCHANGED <<instances, recorded, delivered, normalize_vars>>

CallEvent(ev) ==
    /\ Leave(event(Self, ev))
    /\ last_call' = [op |-> "event", event |-> ev]
    /\ returned' = None
    /\ UNCHANGED <<instances, recorded, delivered, normalize_vars>>

CallWarning(warning_message) ==
    /\ Len(recorded) < MaxWarnings
    /\ Leave(warning(Self, warning_message))
    /\ recorded' = Append(recorded, str_of_message(warning_message))
    /\ last_call' = [op |-> "warning", warning_message |-> warning_message]
    /\ returned' = None
    /\ UNCHANGED <<instances, delivered, normalize_vars>>

CallGetWarnings ==
    LET r == get_warnings(Self)
    IN  /\ Leave(r.self)
        /\ returned' = Some(r.ret)
        /\ delivered' = delivered \o r.ret
        /\ last_call' = [op |-> "get_warnings"]
        /\ UNCHANGED <<instances, recorded, normalize_vars>>

CallRun(check_outcome) ==
    /\ Leave(Self)
    /\ returned' = run(instances, check_outcome)
    /\ last_call' = [op |-> "run", check_outcome |-> check_outcome]
    /\ UNCHANGED <<instances, recorded, delivered, normalize_vars>>

(*************************************************************************)
(* Calls of normalize                                                    *)
(*************************************************************************)

CallNormalize ==
    /\ calls = 0
    /\ result' = normalize(metric, prefix, fix_case)
    /\ calls' = 1
    /\ UNCHANGED <<metric, prefix, fix_case, prev, check_vars>>

\* normalize applied to its own result, a str
CallNormalizeAgain ==
    /\ calls = 1
    /\ prev' = result
    /\ result' = normalize([isUnicode |-> FALSE, chars |-> result], prefix, fix_case)
    /\ calls' = 2
    /\ UNCHANGED <<metric, prefix, fix_case, check_vars>>

(*************************************************************************)
(* Specifications                                                        *)
(*************************************************************************)

\* One instance and the metric calls made on it, between warnings.
Init ==
    /\ InitCheck(<<"instance">>)
    /\ InitNormalize([isUnicode |-> FALSE, chars |-> << >>], None, FALSE)

Next ==
    \/ \E method \in METRIC_METHODS, value \in ValueArgs, th \in TagsHostnameArgs,
          device_name \in DeviceNameArgs :
            CallMetric(method, "metric.name", value, th.tags, th.hostname, device_name)
    \/ CallInDeveloperMode
    \/ \E m \in WarningArgs : CallWarning(m)

Spec == Init /\ [][Next]_vars

\* One instance run by the agent: run(), warning() and get_warnings().
InitLifecycle ==
    /\ \E insts \in InstancesArgs : InitCheck(insts)
    /\ InitNormalize([isUnicode |-> FALSE, chars |-> << >>], None, FALSE)

NextLifecycle ==
    \/ \E o \in CheckOutcomes : CallRun(o)
    \/ \E m \in WarningArgs : CallWarning(m)
    \/ CallGetWarnings
    \/ CallInDeveloperMode

SpecLifecycle == InitLifecycle /\ [][NextLifecycle]_vars

\* The submissions, with every tag list.
InitSubmit ==
    /\ InitCheck(<<"instance">>)
    /\ InitNormalize([isUnicode |-> FALSE, chars |-> << >>], None, FALSE)

NextSubmit ==
    \/ \E tags \in TagsArgs, device_name \in {None, Some("sda")} :
            CallMetric("gauge", "metric.name", Some(1), tags, None, device_name)
    \/ \E tags \in TagsArgs :
            CallServiceCheck(2, tags, None, Some(Unicode("down", TRUE)))
    \/ \E ev \in EventArgs : CallEvent(ev)

SpecSubmit == InitSubmit /\ [][NextSubmit]_vars

\* normalize as a function of its arguments.
InitNormalizeInputs ==
    /\ InitCheck(<< >>)
    /\ \E m \in MetricNames, p \in PrefixArgs, fc \in BOOLEAN : InitNormalize(m, p, fc)

NextNormalize == CallNormalize \/ CallNormalizeAgain

SpecNormalize == InitNormalizeInputs /\ [][NextNormalize]_vars

(*************************************************************************)
(* Properties of normalize (checked under SpecNormalize)                 *)
(*************************************************************************)

HasPair(s, a, b) == \E i \in 1..(Len(s) - 1) : s[i] = a /\ s[i + 1] = b

Occurrences(s, c) == Cardinality({i \in 1..Len(s) : s[i] = c})

\* No double underscore, no leading or trailing underscore, no "._", no "_."
WellFormed(s) ==
    /\ ~HasPair(s, "_", "_")
    /\ s # << >> => s[1] # "_" /\ s[Len(s)] # "_"
    /\ ~HasPair(s, ".", "_")
    /\ ~HasPair(s, "_", ".")

FirstCallOnName == calls = 1 /\ metric.chars # << >>

\* C1 as stated: for every non-empty name, every prefix, absent or supplied,
\* and both values of fix_case, the string normalize returns has no double
\* underscore, no leading or trailing underscore, no "._" and no "_.".
C1_ResultWellFormed == FirstCallOnName => WellFormed(result)

\* C1, amended: with no prefix the whole result is well formed; with a
\* prefix the result is the prefix (converted when fix_case is set, never
\* cleaned), a dot, and a well-formed name.
C1_NameWellFormed ==
    FirstCallOnName =>
        IF prefix.isNone THEN WellFormed(result)
        ELSE LET k == Len(IF fix_case THEN convert_to_underscore_separated(prefix.val)
                          ELSE prefix.val)
             IN  /\ Len(result) > k
                 /\ result[k + 1] = "."
                 /\ WellFormed(Drop(result, k + 1))

C1_Witness ==
    /\ calls = 1
    /\ fix_case
    /\ prefix = Some(<<"B">>)
    /\ metric.chars = <<"a", "B", "-">>
    /\ result = <<"b", ".", "a", "_", "b">>

\* C2 as stated: with no prefix, for every non-empty name and both values of
\* fix_case, the result holds only letters, digits, underscores and dots.
C2_OnlyIdentifierChars ==
    FirstCallOnName /\ prefix.isNone =>
        \A i \in 1..Len(result) : result[i] \in Letters \cup Digits \cup {"_", "."}

\* C2, amended: with fix_case set the result holds only lowercase letters,
\* digits, underscores and dots; with fix_case unset none of the characters
\* of [,+*-/()[]{}\s] survives and a unicode name leaves only ASCII, while
\* every other punctuation character ('!') is kept.
C2_ReplacedCharsOnly ==
    FirstCallOnName /\ prefix.isNone =>
        IF fix_case
        THEN \A i \in 1..Len(result) : result[i] \in Lowercase \cup Digits \cup {"_", "."}
        ELSE /\ \A i \in 1..Len(result) : result[i] \notin NAME_REPLACED
             /\ metric.isUnicode => \A i \in 1..Len(result) : result[i] \in Ascii
             /\ Occurrences(result, "!") = Occurrences(metric.chars, "!")

C2_Witness ==
    /\ calls = 1
    /\ ~fix_case
    /\ prefix.isNone
    /\ metric.chars = <<"a", "!", "-">>
    /\ result = <<"a", "!">>

\* C3: with fix_case unset and no prefix, normalize applied to its own
\* result returns that result.
C3_Idempotent == calls = 2 /\ prefix.isNone /\ ~fix_case => result = prev

C3_Witness ==
    /\ calls = 2
    /\ prefix.isNone
    /\ ~fix_case
    /\ metric.chars = <<"-", ".", "-">>
    /\ prev = <<".">>
    /\ result = <<".">>

Punctuation == {"_", ".", "-", "!"}

\* C4 as stated: with no prefix, a non-empty name with no letter and no
\* digit normalizes to the empty string for both values of fix_case.
C4_PunctuationToEmpty ==
    FirstCallOnName /\ prefix.isNone
        /\ (\A i \in 1..Len(metric.chars) : metric.chars[i] \in Punctuation)
        => result = << >>

\* C4, amended: a non-empty name made only of underscores and characters of
\* [,+*-/()[]{}\s] normalizes to the empty string for both values of
\* fix_case, and so does, with fix_case set, a name of punctuation without
\* a dot.
C4_ReplacedToEmpty ==
    FirstCallOnName /\ prefix.isNone
        /\ \/ \A i \in 1..Len(metric.chars) : metric.chars[i] \in NAME_REPLACED \cup {"_"}
           \/ fix_case /\ \A i \in 1..Len(metric.chars) :
                              metric.chars[i] \in Punctuation \ {"."}
        => result = << >>

C4_Witness ==
    /\ calls = 1
    /\ prefix.isNone
    /\ ~fix_case
    /\ metric.chars = <<"-", "_", "-">>
    /\ result = << >>

(*************************************************************************)
(* Properties of the metric calls (checked under Spec)                   *)
(*************************************************************************)

NoneValuedSubmission(call) == call.op \in METRIC_METHODS /\ call.value.isNone

\* C5 as stated: a metric call whose value is None sends nothing to the
\* aggregator and leaves the instance as it found it, deprecation flags and
\* warnings included, whatever the method and the other arguments.
C5_NoneIsNoOp ==
    [][NoneValuedSubmission(last_call') =>
          /\ submitted' = << >>
          /\ log' = << >>
          /\ deprecations' = deprecations
          /\ notices' = notices
          /\ warnings' = warnings]_vars

\* C5, amended: a metric call whose value is None sends nothing to the
\* aggregator and leaves self.warnings alone; gauge, count, monotonic_count,
\* rate, histogram and historate leave the deprecation flags alone and log
\* nothing, while increment and decrement set the 'increment' flag, logging
\* its notice when it was not set.
C5_NoneSubmitsNothing ==
    [][NoneValuedSubmission(last_call') =>
          /\ submitted' = << >>
          /\ warnings' = warnings
          /\ IF last_call'.op \in {"increment", "decrement"}
             THEN /\ deprecations' = [deprecations EXCEPT !["increment"] = TRUE]
                  /\ log' = IF deprecations["increment"] THEN << >>
                            ELSE <<DeprecationNotice("increment")>>
             ELSE /\ deprecations' = deprecations
                  /\ notices' = notices
                  /\ log' = << >>]_vars

C5_Witness ==
    /\ last_call.op = "gauge"
    /\ last_call.value.isNone
    /\ last_call.device_name = Some("sda")
    /\ ~last_call.tags.isNone
    /\ ~deprecations["device_name"]
    /\ warnings # << >>
    /\ submitted = << >>

\* C6: each deprecation notice is logged at most once per instance: a key's
\* notice has been logged once when its flag is set and never when it is
\* not, so a set flag is never reset and no later call logs the notice again.
C6_NoticeLoggedOnce ==
    \A k \in DEPRECATION_KEYS : notices[k] = IF deprecations[k] THEN 1 ELSE 0

C6_Witness ==
    /\ \A k \in DEPRECATION_KEYS : deprecations[k]
    /\ last_call.op = "decrement"
    /\ last_call.device_name = Some("sda")
    /\ ~last_call.value.isNone
    /\ log = << >>
    /\ Len(submitted) = 1

(*************************************************************************)
(* Properties of run, warning and get_warnings (under SpecLifecycle)     *)
(*************************************************************************)

\* C7: run() never propagates a failure of the check: whatever the instances
\* list and whatever check() raises, run() returns; it returns the empty
\* string exactly when check() completed, and otherwise the payload with the
\* message and the traceback of the exception.
C7_RunNeverPropagates ==
    last_call.op = "run" =>
        /\ ~returned.raised
        /\ returned.val = << >> <=> (instances # << >> /\ last_call.check_outcome.isNone)
        /\ returned.val # << >> =>
               /\ Len(returned.val) = 1
               /\ DOMAIN returned.val[1] = {"message", "traceback"}

\* C10: the messages get_warnings() has returned so far, followed by the
\* messages still buffered, are the messages warning() recorded, in order;
\* get_warnings() returns the whole buffer and leaves it empty.
C10_WarningsDeliveredOnce ==
    /\ delivered \o warnings = recorded
    /\ last_call.op = "get_warnings" =>
           /\ warnings = << >>
           /\ Len(returned.val) <= Len(delivered)
           /\ returned.val = Drop(delivered, Len(delivered) - Len(returned.val))

C10_Witness ==
    /\ last_call.op = "get_warnings"
    /\ returned = Some(<<"7", "w">>)
    /\ warnings = << >>
    /\ recorded = <<"7", "w">>

(*************************************************************************)
(* Properties of the submissions (checked under SpecSubmit)              *)
(*************************************************************************)

IsCoercible(tag) == tag.ok

\* The string form of every tag of the list that can be coerced, in order.
StringForms(tags) ==
    LET kept == SelectSeq(tags, IsCoercible)
    IN  [i \in 1..Len(kept) |-> Str(kept[i].text)]

Uncoercible(tags) == Cardinality({i \in 1..Len(tags) : ~tags[i].ok})

ListOf(opt) == IF opt.isNone THEN << >> ELSE opt.val

\* The tag list a call hands to tag normalization: its tags, then the
\* device tag of a metric call with a device_name.
TagsGiven(call) ==
    IF call.op \in METRIC_METHODS /\ call.device_name # None /\ call.device_name.val # ""
    THEN Append(ListOf(call.tags), Str("device:" \o call.device_name.val))
    ELSE ListOf(call.tags)

EventEncodes(ev) ==
    \A k \in {"msg_title", "aggregation_key"} :
        ev[k].isNone \/ ev[k].val.type # "unicode" \/ ev[k].val.ok

\* C8: tag normalization drops exactly the tags that fail string coercion:
\* the submission reaches the aggregator with the string forms of the other
\* tags, in their order, one tag fewer for every tag that failed.
C8_UncoercibleTagsDropped ==
    /\ last_call.op \in METRIC_METHODS \cup {"service_check"} =>
           /\ Len(submitted) = 1
           /\ submitted[1].tags = StringForms(TagsGiven(last_call))
           /\ Len(submitted[1].tags) =
                  Len(TagsGiven(last_call)) - Uncoercible(TagsGiven(last_call))
    /\ last_call.op = "event" /\ EventEncodes(last_call.event) =>
           /\ Len(submitted) = 1
           /\ ListOf(submitted[1].event.tags) = StringForms(ListOf(last_call.event.tags))
           /\ Len(ListOf(submitted[1].event.tags)) =
                  Len(ListOf(last_call.event.tags)) - Uncoercible(ListOf(last_call.event.tags))

C8_Witness ==
    /\ last_call.op = "gauge"
    /\ last_call.tags = Some(<<Unicode("env:c", FALSE), Object("1", TRUE)>>)
    /\ last_call.device_name = Some("sda")
    /\ Len(submitted) = 1
    /\ submitted[1].tags = <<Str("1"), Str("device:sda")>>

\* C9 as stated: an event with a field that cannot be encoded is still
\* submitted to the aggregator, without that field.
C9_EventStillSubmitted ==
    last_call.op = "event" =>
        /\ Len(submitted) = 1
        /\ submitted[1].fn = "submit_event"

\* C9, amended: an event with a unicode field that cannot be encoded is not
\* submitted at all: event() logs one warning and returns, and the
\* aggregator receives nothing; an event whose fields all encode is
\* submitted with them encoded.
C9_EventDroppedWhole ==
    last_call.op = "event" =>
        IF EventEncodes(last_call.event)
        THEN /\ Len(submitted) = 1
             /\ submitted[1].fn = "submit_event"
             /\ \A k \in {"msg_title", "aggregation_key"} :
                    LET v == submitted[1].event[k]
                    IN  v.isNone \/ v.val.type = "str"
        ELSE /\ submitted = << >>
             /\ log = <<"Error encoding unicode field to utf-8 encoded string, cannot submit event">>

C9_Witness ==
    /\ last_call.op = "event"
    /\ last_call.event.msg_title = Some(Unicode("title", FALSE))
    /\ last_call.event.tags = Some(<<Object("x", FALSE), Str("env:a")>>)
    /\ submitted = << >>
    /\ Len(log) = 1

=============================================================================
